---------------------------- MODULE Spec2Model ----------------------------
(***************************************************************************)
(* A model of clox's single-pass expression compiler (src/clox/compiler.c) *)
(* and of the chunk it writes into (src/clox/chunk.c): the Pratt parser    *)
(* with its explicit call stack, panic-mode error reporting, the           *)
(* run-length line index and the constant pool.                            *)
(***************************************************************************)
EXTENDS Integers, Sequences, FiniteSets, TLC

VARIABLES
    source,     \* the tokens the scanner will deliver before end of input
    scanned,    \* how many of them scanToken has delivered
    parser,     \* Parser parser: current, previous, hadError, panicMode
    chunk,      \* the Chunk compile writes into (compilingChunk)
    stack,      \* the C call stack of compile: one frame per active function
    returned,   \* "none" while compile runs, then "true" or "false"
    stderr,     \* the diagnostics printed by errorAt, in order
    errorCalls, \* history: how many times errorAt was called
    emitted,    \* history: per byte of chunk.code, who emitted it and where
    nullCall,   \* TRUE once a NULL ParseFn was called (undefined behaviour)
    family,     \* which input family Init drew source from
    lineResult  \* what the last getLine call handed back to its caller

vars == <<source, scanned, parser, chunk, stack, returned, stderr,
          errorCalls, emitted, nullCall, family, lineResult>>

-----------------------------------------------------------------------------
(* Bounds of the model *)

MaxLen == 3
MaxOps == 2
MaxRun == 2
MaxGap == 2
MaxExtra == 2
MaxWrites == 4
MaxLine == 3

-----------------------------------------------------------------------------
(* chunk.h: OpCode.  The opcodes compiler.c uses beyond chunk.h's enum are  *)
(* numbered after it.                                                       *)

OP_CONSTANT == 0
OP_ADD == 1
OP_SUBTRACT == 2
OP_MULTIPLY == 3
OP_DIVIDE == 4
OP_NEGATE == 5
OP_RETURN == 6
OP_NIL == 7
OP_TRUE == 8
OP_FALSE == 9
OP_EQUAL == 10
OP_GREATER == 11
OP_LESS == 12
OP_NOT == 13

UINT8_MAX == 255

\* the conversion of an int argument to a uint8_t parameter
Uint8(n) == n % (UINT8_MAX + 1)

-----------------------------------------------------------------------------
(* chunk.c *)

GROW_CAPACITY(capacity) == IF capacity < 8 THEN 8 ELSE capacity * 2

initChunk ==
    [count |-> 0, capacity |-> 0, lineCnt |-> 0, lineCap |-> 0,
     code |-> <<>>, lines |-> <<>>, constants |-> <<>>]

freeChunk(c) == initChunk

\* writeChunk with the run-length update done wrongly: a new pair is
\* started for every byte.
writeChunkNoCollapse(c, byte, line) ==
    [c EXCEPT !.capacity = IF c.capacity < c.count + 1
                              THEN GROW_CAPACITY(c.capacity) ELSE @,
              !.lineCap = IF c.lineCap < c.lineCnt + 1
                             THEN GROW_CAPACITY(c.lineCap) ELSE @,
              !.code = Append(@, Uint8(byte)),
              !.lines = Append(@, [line |-> line, count |-> 1]),
              !.lineCnt = @ + 1,
              !.count = @ + 1]

writeChunk(c, byte, line) ==
    LET newPair == c.lineCnt = 0 \/ line # c.lines[c.lineCnt].line
        lines1 == IF newPair
                     THEN Append(c.lines, [line |-> line, count |-> 0])
                     ELSE c.lines
        lineCnt1 == IF newPair THEN c.lineCnt + 1 ELSE c.lineCnt
    IN  [c EXCEPT !.capacity = IF c.capacity < c.count + 1
                                  THEN GROW_CAPACITY(c.capacity) ELSE @,
                  !.lineCap = IF c.lineCap < c.lineCnt + 1
                                 THEN GROW_CAPACITY(c.lineCap) ELSE @,
                  !.code = Append(@, Uint8(byte)),
                  !.lines = [lines1 EXCEPT ![lineCnt1].count = @ + 1],
                  !.lineCnt = lineCnt1,
                  !.count = @ + 1]

\* addConstant: the new chunk and the index it returns
addConstant(c, value) ==
    [chunk |-> [c EXCEPT !.constants = Append(@, value)],
     index |-> Len(c.constants)]

\* getLine's walk from pair i with the remaining budget count: the line it
\* returns from inside the loop, or found = FALSE when the loop ends and
\* control reaches the end of the function without a return statement.
RECURSIVE getLineWalkOffByOne(_, _, _)
getLineWalkOffByOne(c, i, count) ==
    IF i > c.lineCnt THEN [found |-> FALSE, line |-> 0]
    ELSE IF c.lines[i].count > count
         THEN [found |-> TRUE, line |-> c.lines[i].line]
         ELSE getLineWalkOffByOne(c, i + 1, count - c.lines[i].count)

RECURSIVE getLineWalk(_, _, _)
getLineWalk(c, i, count) ==
    IF i > c.lineCnt THEN [found |-> FALSE, line |-> 0]
    ELSE IF c.lines[i].count >= count
         THEN [found |-> TRUE, line |-> c.lines[i].line]
         ELSE getLineWalk(c, i + 1, count - c.lines[i].count)

\* getLine comparing with > where the code compares with >=
getLineOffByOne(c, index) == getLineWalkOffByOne(c, 1, index + 1)

getLine(c, index) == getLineWalk(c, 1, index + 1)

-----------------------------------------------------------------------------
(* scanner.h: the token kinds the rules table of compiler.c is indexed by *)

TokenTypes ==
    {"TOKEN_LEFT_PAREN", "TOKEN_RIGHT_PAREN", "TOKEN_LEFT_BRACE",
     "TOKEN_RIGHT_BRACE", "TOKEN_COMMA", "TOKEN_DOT", "TOKEN_MINUS",
     "TOKEN_PLUS", "TOKEN_SEMICOLON", "TOKEN_SLASH", "TOKEN_STAR",
     "TOKEN_BANG", "TOKEN_BANG_EQUAL", "TOKEN_EQUAL", "TOKEN_EQUAL_EQUAL",
     "TOKEN_GREATER", "TOKEN_GREATER_EQUAL", "TOKEN_LESS",
     "TOKEN_LESS_EQUAL", "TOKEN_IDENTIFIER", "TOKEN_STRING", "TOKEN_NUMBER",
     "TOKEN_AND", "TOKEN_CLASS", "TOKEN_ELSE", "TOKEN_FALSE", "TOKEN_FOR",
     "TOKEN_FUN", "TOKEN_IF", "TOKEN_NIL", "TOKEN_OR", "TOKEN_PRINT",
     "TOKEN_RETURN", "TOKEN_SUPER", "TOKEN_THIS", "TOKEN_TRUE", "TOKEN_VAR",
     "TOKEN_WHILE", "TOKEN_ERROR", "TOKEN_EOF"}

\* a Token: its kind, its source line, and its lexeme as a sequence of
\* characters (for an error token: the one message the scanner points to)
Token(type, line, start) == [type |-> type, line |-> line, start |-> start]

\* the zero-initialised tokens of the global parser before compile runs
ZeroToken == Token("TOKEN_LEFT_PAREN", 0, <<>>)

\* the line the scanner is on when it reaches the end of the input
EofLine == IF Len(source) = 0 THEN 1 ELSE source[Len(source)].line

\* scanToken: the next token of the input, and TOKEN_EOF for ever after it
scanToken(n) ==
    IF n < Len(source) THEN source[n + 1] ELSE Token("TOKEN_EOF", EofLine, <<>>)

-----------------------------------------------------------------------------
(* compiler.c: Precedence, ParseRule, rules *)

PREC_NONE == 0
PREC_ASSIGNMENT == 1
PREC_OR == 2
PREC_AND == 3
PREC_EQUALITY == 4
PREC_COMPARISON == 5
PREC_TERM == 6
PREC_FACTOR == 7
PREC_UNARY == 8
PREC_CALL == 9
PREC_PRIMARY == 10

ParseRule(prefix, infix, precedence) ==
    [prefix |-> prefix, infix |-> infix, precedence |-> precedence]

\* the rules table with the row of TOKEN_BANG given the precedence of the
\* row of TOKEN_MINUS above it, and no infix action
rulesBangTerm ==
    [t \in TokenTypes |->
       CASE t = "TOKEN_LEFT_PAREN"    -> ParseRule("grouping", "NULL", PREC_NONE)
         [] t = "TOKEN_MINUS"         -> ParseRule("unary", "binary", PREC_TERM)
         [] t = "TOKEN_PLUS"          -> ParseRule("NULL", "binary", PREC_TERM)
         [] t = "TOKEN_SLASH"         -> ParseRule("NULL", "binary", PREC_FACTOR)
         [] t = "TOKEN_STAR"          -> ParseRule("NULL", "binary", PREC_FACTOR)
         [] t = "TOKEN_BANG"          -> ParseRule("unary", "NULL", PREC_TERM)
         [] t = "TOKEN_BANG_EQUAL"    -> ParseRule("NULL", "binary", PREC_EQUALITY)
         [] t = "TOKEN_EQUAL_EQUAL"   -> ParseRule("NULL", "binary", PREC_EQUALITY)
         [] t = "TOKEN_GREATER"       -> ParseRule("NULL", "binary", PREC_COMPARISON)
         [] t = "TOKEN_GREATER_EQUAL" -> ParseRule("NULL", "binary", PREC_COMPARISON)
         [] t = "TOKEN_LESS"          -> ParseRule("NULL", "binary", PREC_COMPARISON)
         [] t = "TOKEN_LESS_EQUAL"    -> ParseRule("NULL", "binary", PREC_COMPARISON)
         [] t = "TOKEN_STRING"        -> ParseRule("string", "NULL", PREC_NONE)
         [] t = "TOKEN_NUMBER"        -> ParseRule("number", "NULL", PREC_NONE)
         [] t = "TOKEN_FALSE"         -> ParseRule("literal", "NULL", PREC_NONE)
         [] t = "TOKEN_NIL"           -> ParseRule("literal", "NULL", PREC_NONE)
         [] t = "TOKEN_TRUE"          -> ParseRule("literal", "NULL", PREC_NONE)
         [] OTHER                     -> ParseRule("NULL", "NULL", PREC_NONE)]

rules ==
    [t \in TokenTypes |->
       CASE t = "TOKEN_LEFT_PAREN"    -> ParseRule("grouping", "NULL", PREC_NONE)
         [] t = "TOKEN_MINUS"         -> ParseRule("unary", "binary", PREC_TERM)
         [] t = "TOKEN_PLUS"          -> ParseRule("NULL", "binary", PREC_TERM)
         [] t = "TOKEN_SLASH"         -> ParseRule("NULL", "binary", PREC_FACTOR)
         [] t = "TOKEN_STAR"          -> ParseRule("NULL", "binary", PREC_FACTOR)
         [] t = "TOKEN_BANG"          -> ParseRule("unary", "NULL", PREC_NONE)
         [] t = "TOKEN_BANG_EQUAL"    -> ParseRule("NULL", "binary", PREC_EQUALITY)
         [] t = "TOKEN_EQUAL_EQUAL"   -> ParseRule("NULL", "binary", PREC_EQUALITY)
         [] t = "TOKEN_GREATER"       -> ParseRule("NULL", "binary", PREC_COMPARISON)
         [] t = "TOKEN_GREATER_EQUAL" -> ParseRule("NULL", "binary", PREC_COMPARISON)
         [] t = "TOKEN_LESS"          -> ParseRule("NULL", "binary", PREC_COMPARISON)
         [] t = "TOKEN_LESS_EQUAL"    -> ParseRule("NULL", "binary", PREC_COMPARISON)
         [] t = "TOKEN_STRING"        -> ParseRule("string", "NULL", PREC_NONE)
         [] t = "TOKEN_NUMBER"        -> ParseRule("number", "NULL", PREC_NONE)
         [] t = "TOKEN_FALSE"         -> ParseRule("literal", "NULL", PREC_NONE)
         [] t = "TOKEN_NIL"           -> ParseRule("literal", "NULL", PREC_NONE)
         [] t = "TOKEN_TRUE"          -> ParseRule("literal", "NULL", PREC_NONE)
         [] OTHER                     -> ParseRule("NULL", "NULL", PREC_NONE)]

getRule(type) == rules[type]

-----------------------------------------------------------------------------
(* compiler.c: error reporting.  The operators below take and return the   *)
(* compile-time context m: the parser, the chunk, the scanner position,    *)
(* the diagnostic stream and the count of errorAt calls.                   *)

Diagnostic(token, message) ==
    [line |-> token.line,
     where |-> IF token.type = "TOKEN_EOF" THEN "at end"
               ELSE IF token.type = "TOKEN_ERROR" THEN ""
               ELSE "at lexeme",
     lexeme |-> IF token.type \in {"TOKEN_EOF", "TOKEN_ERROR"}
                   THEN <<>> ELSE token.start,
     message |-> message]

\* errorAt without its first line: a report is printed also while panicking
errorAtNoSuppression(m, token, message) ==
    [m EXCEPT !.errorCalls = @ + 1,
              !.parser.panicMode = TRUE,
              !.stderr = Append(@, Diagnostic(token, message)),
              !.parser.hadError = TRUE]

errorAt(m, token, message) ==
    IF m.parser.panicMode
       THEN [m EXCEPT !.errorCalls = @ + 1]
       ELSE [m EXCEPT !.errorCalls = @ + 1,
                      !.parser.panicMode = TRUE,
                      !.stderr = Append(@, Diagnostic(token, message)),
                      !.parser.hadError = TRUE]

error(m, message) == errorAt(m, m.parser.previous, message)

errorAtCurrent(m, message) == errorAt(m, m.parser.current, message)

\* the for (;;) loop of advance
RECURSIVE advanceLoop(_)
advanceLoop(m) ==
    LET tok == scanToken(m.scanned)
        m1 == [m EXCEPT !.parser.current = tok,
                        !.scanned = IF @ < Len(source) THEN @ + 1 ELSE @]
    IN  IF tok.type # "TOKEN_ERROR" THEN m1
        ELSE advanceLoop(errorAtCurrent(m1, tok.start[1]))

advance(m) ==
    advanceLoop([m EXCEPT !.parser.previous = m.parser.current])

consume(m, type, message) ==
    IF m.parser.current.type = type THEN advance(m)
    ELSE errorAtCurrent(m, message)

-----------------------------------------------------------------------------
(* compiler.c: bytecode emission *)

emitByte(m, byte) ==
    [m EXCEPT !.chunk = writeChunk(m.chunk, byte, m.parser.previous.line)]

emitBytes(m, byte1, byte2) == emitByte(emitByte(m, byte1), byte2)

emitReturn(m) == emitByte(m, OP_RETURN)

\* makeConstant without the range check: the index is only truncated
makeConstantTruncating(m, value) ==
    LET added == addConstant(m.chunk, value)
    IN  [m |-> [m EXCEPT !.chunk = added.chunk], byte |-> Uint8(added.index)]

\* makeConstant accepting one index too many
makeConstantOffByOne(m, value) ==
    LET added == addConstant(m.chunk, value)
        m1 == [m EXCEPT !.chunk = added.chunk]
    IN  IF added.index > UINT8_MAX + 1
           THEN [m |-> error(m1, "Too many constants is one chunk."),
                 byte |-> 0]
           ELSE [m |-> m1, byte |-> Uint8(added.index)]

\* makeConstant: the context after it, and the operand byte it returns
makeConstant(m, value) ==
    LET added == addConstant(m.chunk, value)
        m1 == [m EXCEPT !.chunk = added.chunk]
    IN  IF added.index > UINT8_MAX
           THEN [m |-> error(m1, "Too many constants is one chunk."),
                 byte |-> 0]
           ELSE [m |-> m1, byte |-> Uint8(added.index)]

emitConstant(m, value) ==
    LET made == makeConstant(m, value)
    IN  emitBytes(made.m, OP_CONSTANT, made.byte)

\* endCompiler that emits the return only for an error-free compile
endCompilerSkipsOnError(m) == IF m.parser.hadError THEN m ELSE emitReturn(m)

endCompiler(m) == emitReturn(m)

-----------------------------------------------------------------------------
(* value.h, object.h and the C library, as far as number and string use    *)
(* them                                                                     *)

Digits == <<"0", "1", "2", "3", "4", "5", "6", "7", "8", "9">>

DigitValue(ch) == (CHOOSE d \in 1..10 : Digits[d] = ch) - 1

\* strtod on a lexeme of decimal digits
RECURSIVE strtod(_)
strtod(start) ==
    IF start = <<>> THEN 0
    ELSE 10 * strtod(SubSeq(start, 1, Len(start) - 1))
         + DigitValue(start[Len(start)])

NUMBER_VAL(value) == [type |-> "VAL_NUMBER", number |-> value, chars |-> <<>>]

\* copyString(chars, length): the length characters from chars on
copyString(chars, length) == SubSeq(chars, 1, length)

OBJ_VAL(object) == [type |-> "VAL_OBJ", number |-> 0, chars |-> object]

-----------------------------------------------------------------------------
(* The call stack.  A frame is one active C function: where it stands (pc) *)
(* and its parameters and locals.                                          *)

Frame(fn, pc, precedence, operatorType, operatorLine) ==
    [fn |-> fn, pc |-> pc, precedence |-> precedence,
     operatorType |-> operatorType, operatorLine |-> operatorLine]

Enter(fn) == Frame(fn, "begin", PREC_NONE, "TOKEN_EOF", 0)

\* a call of parsePrecedence(precedence)
parsePrecedence(precedence) ==
    Frame("parsePrecedence", "begin", precedence, "TOKEN_EOF", 0)

\* a call of expression()
expression == parsePrecedence(PREC_ASSIGNMENT)

Top == stack[Len(stack)]

Below == SubSeq(stack, 1, Len(stack) - 1)

At(fn, pc) == Len(stack) > 0 /\ Top.fn = fn /\ Top.pc = pc

\* the compile-time context the operators of compiler.c work on
Ctx ==
    [parser |-> parser, chunk |-> chunk, scanned |-> scanned,
     stderr |-> stderr, errorCalls |-> errorCalls]

Commit(m) ==
    /\ parser' = m.parser
    /\ chunk' = m.chunk
    /\ scanned' = m.scanned
    /\ stderr' = m.stderr
    /\ errorCalls' = m.errorCalls

\* history of the bytes the step to context m appended: the function that
\* emitted them, which byte of its emission each is, the size of the
\* constant pool then, the line of parser.previous then, and the line of
\* the token the instruction stands for
Emitted(m, by, tokLine) ==
    emitted' = emitted \o [i \in 1..(m.chunk.count - chunk.count) |->
                             [by |-> by,
                              nth |-> i,
                              pool |-> Len(m.chunk.constants),
                              prevLine |-> m.parser.previous.line,
                              tokLine |-> tokLine]]

-----------------------------------------------------------------------------
(* compiler.c: the parse functions, one action per straight-line stretch   *)

\* the instruction bytes binary emits for an operator
binaryCode(operatorType) ==
    CASE operatorType = "TOKEN_BANG_EQUAL"    -> <<OP_EQUAL, OP_NOT>>
      [] operatorType = "TOKEN_EQUAL_EQUAL"   -> <<OP_EQUAL>>
      [] operatorType = "TOKEN_GREATER"       -> <<OP_GREATER>>
      [] operatorType = "TOKEN_GREATER_EQUAL" -> <<OP_LESS, OP_NOT>>
      [] operatorType = "TOKEN_LESS"          -> <<OP_LESS>>
      [] operatorType = "TOKEN_LESS_EQUAL"    -> <<OP_GREATER, OP_NOT>>
      [] operatorType = "TOKEN_PLUS"          -> <<OP_ADD>>
      [] operatorType = "TOKEN_MINUS"         -> <<OP_SUBTRACT>>
      [] operatorType = "TOKEN_STAR"          -> <<OP_MULTIPLY>>
      [] operatorType = "TOKEN_SLASH"         -> <<OP_DIVIDE>>
      [] OTHER                                -> <<>>

\* the instruction bytes unary emits for an operator
unaryCode(operatorType) ==
    CASE operatorType = "TOKEN_BANG"  -> <<OP_NOT>>
      [] operatorType = "TOKEN_MINUS" -> <<OP_NEGATE>>
      [] OTHER                        -> <<>>

\* the instruction bytes literal emits for a keyword
literalCode(type) ==
    CASE type = "TOKEN_FALSE" -> <<OP_FALSE>>
      [] type = "TOKEN_NIL"   -> <<OP_NIL>>
      [] type = "TOKEN_TRUE"  -> <<OP_TRUE>>
      [] OTHER                -> <<>>

\* emitByte or emitBytes over the bytes a switch selected
RECURSIVE emitAll(_, _)
emitAll(m, bytes) ==
    IF bytes = <<>> THEN m
    ELSE emitAll(emitByte(m, Head(bytes)), Tail(bytes))

\* binary parsing its right operand at the operator's own precedence
binaryOperandSamePrecedence(operatorType) ==
    getRule(operatorType).precedence

\* the precedence binary parses its right operand at
binaryOperandPrecedence(operatorType) ==
    getRule(operatorType).precedence + 1

\* compile returning the flag itself instead of its negation
compileResultUnnegated(m) == m.parser.hadError

\* the value compile returns
compileResult(m) == ~m.parser.hadError

compile_begin ==
    /\ returned = "none" /\ Len(stack) = 1 /\ At("compile", "begin")
    /\ \E m0 \in {[Ctx EXCEPT !.scanned = 0,
                                !.parser.hadError = FALSE,
                                !.parser.panicMode = FALSE]} :
         \E m1 \in {advance(m0)} : Commit(m1)
    /\ stack' = <<[Top EXCEPT !.pc = "afterExpression"], expression>>
    /\ UNCHANGED <<source, returned, emitted, nullCall, family, lineResult>>

compile_end ==
    /\ returned = "none" /\ Len(stack) = 1 /\ At("compile", "afterExpression")
    /\ \E m1 \in {consume(Ctx, "TOKEN_EOF", "Expect end of expression.")} :
         \E m2 \in {endCompiler(m1)} :
           /\ Commit(m2)
           /\ Emitted(m2, "endCompiler", m2.parser.previous.line)
           /\ returned' = IF compileResult(m2) THEN "true" ELSE "false"
    /\ stack' = <<>>
    /\ UNCHANGED <<source, nullCall, family, lineResult>>

parsePrecedence_prefix ==
    /\ At("parsePrecedence", "begin")
    /\ \E m1 \in {advance(Ctx)} :
         LET prefixRule == getRule(m1.parser.previous.type).prefix
         IN  IF prefixRule = "NULL"
                THEN /\ \E m2 \in {error(m1, "Expect expression.")} :
                          Commit(m2)
                     /\ stack' = Below
                ELSE /\ Commit(m1)
                     /\ stack' = Below \o <<[Top EXCEPT !.pc = "loop"],
                                            Enter(prefixRule)>>
    /\ UNCHANGED <<source, returned, emitted, nullCall, family, lineResult>>

parsePrecedence_loop ==
    /\ At("parsePrecedence", "loop")
    /\ IF Top.precedence <= getRule(parser.current.type).precedence
          THEN \E m1 \in {advance(Ctx)} :
                 LET infixRule == getRule(m1.parser.previous.type).infix
                 IN  /\ Commit(m1)
                     /\ IF infixRule = "NULL"
                           THEN nullCall' = TRUE /\ stack' = <<>>
                           ELSE /\ nullCall' = nullCall
                                /\ stack' = Append(stack, Enter(infixRule))
          ELSE /\ Commit(Ctx)
               /\ stack' = Below
               /\ nullCall' = nullCall
    /\ UNCHANGED <<source, returned, emitted, family, lineResult>>

binary_begin ==
    /\ At("binary", "begin")
    /\ LET operatorType == parser.previous.type
       IN  stack' = Below \o
             <<[Top EXCEPT !.pc = "afterOperand",
                           !.operatorType = operatorType,
                           !.operatorLine = parser.previous.line],
               parsePrecedence(binaryOperandPrecedence(operatorType))>>
    /\ UNCHANGED <<source, scanned, parser, chunk, returned, stderr,
                   errorCalls, emitted, nullCall, family, lineResult>>

binary_end ==
    /\ At("binary", "afterOperand")
    /\ \E m1 \in {emitAll(Ctx, binaryCode(Top.operatorType))} :
         Commit(m1) /\ Emitted(m1, "binary", Top.operatorLine)
    /\ stack' = Below
    /\ UNCHANGED <<source, returned, nullCall, family, lineResult>>

literal ==
    /\ At("literal", "begin")
    /\ \E m1 \in {emitAll(Ctx, literalCode(parser.previous.type))} :
         Commit(m1) /\ Emitted(m1, "literal", parser.previous.line)
    /\ stack' = Below
    /\ UNCHANGED <<source, returned, nullCall, family, lineResult>>

grouping_begin ==
    /\ At("grouping", "begin")
    /\ stack' = Below \o <<[Top EXCEPT !.pc = "afterExpression"], expression>>
    /\ UNCHANGED <<source, scanned, parser, chunk, returned, stderr,
                   errorCalls, emitted, nullCall, family, lineResult>>

grouping_end ==
    /\ At("grouping", "afterExpression")
    /\ \E m1 \in {consume(Ctx, "TOKEN_RIGHT_PAREN",
                           "Expect ')' after expression.")} : Commit(m1)
    /\ stack' = Below
    /\ UNCHANGED <<source, returned, emitted, nullCall, family, lineResult>>

number ==
    /\ At("number", "begin")
    /\ \E value \in {strtod(parser.previous.start)} :
         \E m1 \in {emitConstant(Ctx, NUMBER_VAL(value))} :
           Commit(m1) /\ Emitted(m1, "number", parser.previous.line)
    /\ stack' = Below
    /\ UNCHANGED <<source, returned, nullCall, family, lineResult>>

string ==
    /\ At("string", "begin")
    /\ \E object \in {copyString(Tail(parser.previous.start),
                                  Len(parser.previous.start) - 2)} :
         \E m1 \in {emitConstant(Ctx, OBJ_VAL(object))} :
           Commit(m1) /\ Emitted(m1, "string", parser.previous.line)
    /\ stack' = Below
    /\ UNCHANGED <<source, returned, nullCall, family, lineResult>>

unary_begin ==
    /\ At("unary", "begin")
    /\ stack' = Below \o
         <<[Top EXCEPT !.pc = "afterOperand",
                       !.operatorType = parser.previous.type,
                       !.operatorLine = parser.previous.line],
           parsePrecedence(PREC_UNARY)>>
    /\ UNCHANGED <<source, scanned, parser, chunk, returned, stderr,
                   errorCalls, emitted, nullCall, family, lineResult>>

unary_end ==
    /\ At("unary", "afterOperand")
    /\ \E m1 \in {emitAll(Ctx, unaryCode(Top.operatorType))} :
         Commit(m1) /\ Emitted(m1, "unary", Top.operatorLine)
    /\ stack' = Below
    /\ UNCHANGED <<source, returned, nullCall, family, lineResult>>

Next ==
    \/ compile_begin
    \/ compile_end
    \/ parsePrecedence_prefix
    \/ parsePrecedence_loop
    \/ binary_begin
    \/ binary_end
    \/ literal
    \/ grouping_begin
    \/ grouping_end
    \/ number
    \/ string
    \/ unary_begin
    \/ unary_end

-----------------------------------------------------------------------------
(* The inputs: the token streams a scanner can hand to compile             *)

\* the source line of the i-th token when run tokens share a line and
\* consecutive lines with tokens are gap apart (gap 0: all on line 1)
LineAt(run, gap, i) == 1 + gap * ((i - 1) \div run)

\* the lexeme of the k-th numeric literal of an input: one decimal digit
LiteralDigit(k) == ((k - 1) % 9) + 1

Lexeme(type, k) ==
    CASE type = "TOKEN_NUMBER"      -> <<Digits[LiteralDigit(k) + 1]>>
      [] type = "TOKEN_STRING"      -> <<"\"", "a", "b", "\"">>
      [] type = "TOKEN_ERROR"       -> <<"Unexpected character.">>
      [] type = "TOKEN_LEFT_PAREN"  -> <<"(">>
      [] type = "TOKEN_RIGHT_PAREN" -> <<")">>
      [] type = "TOKEN_MINUS"       -> <<"-">>
      [] type = "TOKEN_PLUS"        -> <<"+">>
      [] type = "TOKEN_STAR"        -> <<"*">>
      [] type = "TOKEN_SLASH"       -> <<"/">>
      [] type = "TOKEN_BANG"        -> <<"!">>
      [] OTHER                      -> <<"x">>

\* how many of the first i kinds are numeric literals
NumbersUpTo(types, i) ==
    Cardinality({j \in 1..i : types[j] = "TOKEN_NUMBER"})

\* the tokens of a sequence of kinds under a line layout
Tokens(types, run, gap) ==
    [i \in 1..Len(types) |->
       Token(types[i], LineAt(run, gap, i),
             Lexeme(types[i], NumbersUpTo(types, i)))]

\* family "tokens": every stream of at most MaxLen tokens over these kinds
CoreKinds ==
    {"TOKEN_LEFT_PAREN", "TOKEN_RIGHT_PAREN", "TOKEN_MINUS", "TOKEN_PLUS",
     "TOKEN_STAR", "TOKEN_BANG", "TOKEN_LESS_EQUAL", "TOKEN_NUMBER",
     "TOKEN_STRING", "TOKEN_TRUE", "TOKEN_IDENTIFIER", "TOKEN_ERROR"}

CoreStreams == UNION {[1..k -> CoreKinds] : k \in 0..MaxLen}

\* family "kinds": every token kind the scanner can deliver, alone, after,
\* before and between numeric literals
KindStreams ==
    UNION {{<<t>>, <<"TOKEN_NUMBER", t>>, <<t, "TOKEN_NUMBER">>,
            <<"TOKEN_NUMBER", t, "TOKEN_NUMBER">>} :
           t \in TokenTypes \ {"TOKEN_EOF"}}

\* family "expr": the well-formed arithmetic expressions with at most
\* MaxOps operators (unary minus, parentheses, + - * /), as trees
BinaryOperators == {"TOKEN_PLUS", "TOKEN_MINUS", "TOKEN_STAR", "TOKEN_SLASH"}

RECURSIVE Shapes(_)
Shapes(n) ==
    IF n = 0 THEN {<<"num">>}
    ELSE {<<"neg", e>> : e \in Shapes(n - 1)}
         \cup {<<"group", e>> : e \in Shapes(n - 1)}
         \cup UNION {{<<"bin", op, l, r>> :
                        op \in BinaryOperators,
                        l \in Shapes(k), r \in Shapes(n - 1 - k)} :
                     k \in 0..(n - 1)}

Expressions == UNION {Shapes(n) : n \in 0..MaxOps}

\* the binding strength of the standard grammar: additive 1,
\* multiplicative 2, unary minus 3
Binding(op) == IF op \in {"TOKEN_PLUS", "TOKEN_MINUS"} THEN 1 ELSE 2

\* the token kinds of an expression written with the parentheses standard
\* precedence and left associativity require, where an operand of binding
\* strength at least need is expected
RECURSIVE Unparse(_, _)
Unparse(e, need) ==
    LET paren(body) == <<"TOKEN_LEFT_PAREN">> \o body \o <<"TOKEN_RIGHT_PAREN">>
    IN  CASE e[1] = "num"   -> <<"TOKEN_NUMBER">>
          [] e[1] = "group" -> paren(Unparse(e[2], 0))
          [] e[1] = "neg"   -> <<"TOKEN_MINUS">> \o Unparse(e[2], 3)
          [] e[1] = "bin"   ->
               LET body == Unparse(e[3], Binding(e[2])) \o <<e[2]>>
                           \o Unparse(e[4], Binding(e[2]) + 1)
               IN  IF Binding(e[2]) < need THEN paren(body) ELSE body

LineLayouts == {<<run, gap>> : run \in 1..MaxRun, gap \in 0..MaxGap}

\* family "many": literals joined by +, from one fewer than the operand
\* byte can address to MaxExtra more than one too many
Sum(n) ==
    [i \in 1..(2 * n - 1) |->
       IF i % 2 = 1 THEN "TOKEN_NUMBER" ELSE "TOKEN_PLUS"]

ManyCounts == UINT8_MAX..(UINT8_MAX + 2 + MaxExtra)

NoTree == <<"none">>

Inputs ==
    {[kind |-> "tokens", ast |-> NoTree, tokens |-> Tokens(ts, 1, gap)] :
       ts \in CoreStreams, gap \in {0, MaxGap}}
    \cup
    {[kind |-> "kinds", ast |-> NoTree, tokens |-> Tokens(ts, 1, gap)] :
       ts \in KindStreams, gap \in {0, MaxGap}}
    \cup
    {[kind |-> "expr", ast |-> e,
      tokens |-> Tokens(Unparse(e, 0), layout[1], layout[2])] :
       e \in Expressions, layout \in LineLayouts}
    \cup
    {[kind |-> "many", ast |-> NoTree, tokens |-> Tokens(Sum(n), 1, 0)] :
       n \in ManyCounts}

-----------------------------------------------------------------------------
(* The compile of one input into a chunk the caller has initialised        *)

NoResult == [kind |-> "none", index |-> 0, value |-> 0]

Init ==
    /\ \E input \in Inputs :
         /\ source = input.tokens
         /\ family = [kind |-> input.kind, ast |-> input.ast]
    /\ scanned = 0
    /\ parser = [current |-> ZeroToken, previous |-> ZeroToken,
                 hadError |-> FALSE, panicMode |-> FALSE]
    /\ chunk = initChunk
    /\ stack = <<Enter("compile")>>
    /\ returned = "none"
    /\ stderr = <<>>
    /\ errorCalls = 0
    /\ emitted = <<>>
    /\ nullCall = FALSE
    /\ lineResult = NoResult

Spec == Init /\ [][Next]_vars

-----------------------------------------------------------------------------
(* The chunk on its own: a caller that writes bytes with any lines, asks   *)
(* for the line of any offset, and frees the chunk                         *)

ByteInputs == {OP_RETURN, UINT8_MAX + 1}

\* what a caller can find in the return register when getLine ends
\* without a return statement
UndefinedInts == {-1, 0}

writeChunk_call ==
    /\ chunk.count < MaxWrites
    /\ \E byte \in ByteInputs, line \in 1..MaxLine :
         /\ chunk' = writeChunk(chunk, byte, line)
         /\ emitted' = Append(emitted,
                              [by |-> "caller", nth |-> 1,
                               pool |-> Len(chunk.constants),
                               prevLine |-> line, tokLine |-> line])
    /\ lineResult' = NoResult
    /\ UNCHANGED <<source, scanned, parser, stack, returned, stderr,
                   errorCalls, nullCall, family>>

getLine_call ==
    /\ \E index \in 0..MaxWrites, undefined \in UndefinedInts :
         LET walk == getLine(chunk, index)
         IN  lineResult' =
               IF walk.found
                  THEN [kind |-> "line", index |-> index, value |-> walk.line]
                  ELSE [kind |-> "undefined", index |-> index,
                        value |-> undefined]
    /\ UNCHANGED <<source, scanned, parser, chunk, stack, returned, stderr,
                   errorCalls, emitted, nullCall, family>>

freeChunk_call ==
    /\ chunk.count > 0
    /\ chunk' = freeChunk(chunk)
    /\ emitted' = <<>>
    /\ lineResult' = NoResult
    /\ UNCHANGED <<source, scanned, parser, stack, returned, stderr,
                   errorCalls, nullCall, family>>

ChunkNext ==
    \/ writeChunk_call
    \/ getLine_call
    \/ freeChunk_call

ChunkInit ==
    /\ source = <<>>
    /\ family = [kind |-> "chunk", ast |-> NoTree]
    /\ scanned = 0
    /\ parser = [current |-> ZeroToken, previous |-> ZeroToken,
                 hadError |-> FALSE, panicMode |-> FALSE]
    /\ chunk = initChunk
    /\ stack = <<>>
    /\ returned = "none"
    /\ stderr = <<>>
    /\ errorCalls = 0
    /\ emitted = <<>>
    /\ nullCall = FALSE
    /\ lineResult = NoResult

ChunkSpec == ChunkInit /\ [][ChunkNext]_vars

-----------------------------------------------------------------------------
(* Properties of the error reporting *)

Done == returned # "none"

\* the kinds of the tokens of the input
Kinds == [i \in 1..Len(source) |-> source[i].type]

\* C1: one compile prints at most one diagnostic, and exactly one as soon
\* as errorAt has been called at all; once panicMode is set no later step
\* clears it, and no later step prints.
C1_PanicModeSuppression ==
    /\ [](/\ Len(stderr) <= 1
          /\ errorCalls >= 1 => (Len(stderr) = 1 /\ parser.panicMode))
    /\ [][parser.panicMode => (parser'.panicMode /\ stderr' = stderr)]_vars

\* `(1 +` has been compiled: the missing expression was reported at the
\* end of input, the missing ')' was detected and dropped.
C1_Witness ==
    /\ Done
    /\ Kinds = <<"TOKEN_LEFT_PAREN", "TOKEN_NUMBER", "TOKEN_PLUS">>
    /\ errorCalls = 2
    /\ Len(stderr) = 1
    /\ stderr[1].message = "Expect expression."
    /\ stderr[1].where = "at end"

\* C2: compile returns false exactly when errorAt was called during it;
\* hadError is set by the first call, is never set back to false, and the
\* returned value is the negation of hadError.
C2_SuccessIffNoError ==
    /\ [](/\ parser.hadError <=> errorCalls >= 1
          /\ Done => (returned = "false" <=> errorCalls >= 1)
          /\ Done => (returned = "true" <=> ~parser.hadError))
    /\ [][parser.hadError => parser'.hadError]_vars

\* a compile that returned false after three errorAt calls, of which the
\* second and the third were dropped by panic mode
C2_Witness ==
    /\ returned = "false"
    /\ errorCalls = 3
    /\ Len(stderr) = 1
    /\ parser.hadError

\* what is left of the input: the tokens not yet scanned and the current
\* token, unless that is the end of input
Remaining ==
    (Len(source) - scanned)
    + (IF parser.current.type = "TOKEN_EOF" THEN 0 ELSE 1)

\* the steps the frames from the i-th up can still take without reading
\* a token
RECURSIVE Pending(_)
Pending(i) ==
    IF i > Len(stack) THEN 0
    ELSE Pending(i + 1)
         + (IF stack[i].pc = "begin"
               /\ stack[i].fn \in {"binary", "unary", "grouping"}
               THEN 3 ELSE 1)

Measure == 5 * Remaining + Pending(1)

\* C3: whatever the token stream, compile terminates: until it has
\* returned a step is always possible, and every step lowers a measure
\* that is a natural number (what is left of the input, then what the
\* active functions still have to do), so no error aborts the pass and no
\* loop runs for ever; when compile returns every function it called has
\* returned, none was a NULL pointer, the end-of-input check has run and
\* the last byte of the chunk is OP_RETURN, written by endCompiler, errors
\* or not.
C3_AlwaysReachesTheEnd ==
    /\ [](/\ Done \/ ENABLED Next
          /\ Measure >= 0
          /\ Done => /\ stack = <<>>
                     /\ ~nullCall
                     /\ parser.current.type = "TOKEN_EOF" \/ parser.hadError
                     /\ chunk.count >= 1
                     /\ chunk.code[chunk.count] = OP_RETURN
                     /\ emitted[chunk.count].by = "endCompiler")
    /\ [][Measure' < Measure]_vars

\* a compile of a stream with an error token and a syntax error has
\* returned false with the return opcode last
C3_Witness ==
    /\ returned = "false"
    /\ \E i \in 1..Len(source) : source[i].type = "TOKEN_ERROR"
    /\ errorCalls >= 2
    /\ chunk.code[chunk.count] = OP_RETURN
    /\ chunk.count >= 3

-----------------------------------------------------------------------------
(* Properties of the precedence climbing *)

Frames == {stack[i] : i \in 1..Len(stack)}

\* C10: parsePrecedence never calls a NULL infix action: every minimum
\* precedence it runs with lies between PREC_ASSIGNMENT and PREC_UNARY,
\* every kind of token whose precedence is above PREC_NONE has an infix
\* action, every function entered is a real one, and a current token
\* without an infix action ends the loop without being consumed.
C10_NoNullInfix ==
    /\ [](/\ ~nullCall
          /\ \A f \in Frames :
               /\ f.fn # "NULL"
               /\ f.fn = "parsePrecedence" =>
                    (PREC_ASSIGNMENT <= f.precedence
                     /\ f.precedence <= PREC_UNARY)
          /\ \A t \in TokenTypes :
               getRule(t).precedence > PREC_NONE => getRule(t).infix # "NULL")
    /\ [][(At("parsePrecedence", "loop")
           /\ getRule(parser.current.type).infix = "NULL")
          => (stack' = Below /\ parser' = parser /\ scanned' = scanned)]_vars

\* the loop of a parsePrecedence(PREC_UNARY) is about to stop at a token
\* that is not the end of input and has no infix action
C10_Witness ==
    /\ At("parsePrecedence", "loop")
    /\ Top.precedence = PREC_UNARY
    /\ parser.current.type \in {"TOKEN_LEFT_PAREN", "TOKEN_BANG",
                                "TOKEN_IDENTIFIER", "TOKEN_NUMBER"}
    /\ ~parser.hadError

-----------------------------------------------------------------------------
(* The stack machine the chunk is written for, and the standard reading of *)
(* an expression.  A value is the term that was computed and its exact     *)
(* rational value <<numerator, denominator>>; a zero denominator stands    *)
(* for the non-finite result of a division by zero.                        *)

Rational(n) == <<n, 1>>

Arith(op, a, b) ==
    CASE op = "TOKEN_PLUS"  -> <<a[1] * b[2] + b[1] * a[2], a[2] * b[2]>>
      [] op = "TOKEN_MINUS" -> <<a[1] * b[2] - b[1] * a[2], a[2] * b[2]>>
      [] op = "TOKEN_STAR"  -> <<a[1] * b[1], a[2] * b[2]>>
      [] op = "TOKEN_SLASH" -> <<a[1] * b[2], a[2] * b[1]>>

SameNumber(a, b) ==
    IF a[2] = 0 \/ b[2] = 0 THEN a[2] = 0 /\ b[2] = 0
    ELSE a[1] * b[2] = b[1] * a[2]

Literal(n) == [term |-> <<"num", n>>, num |-> Rational(n)]

Negated(a) == [term |-> <<"neg", a.term>>, num |-> <<0 - a.num[1], a.num[2]>>]

Combined(op, a, b) ==
    [term |-> <<"bin", op, a.term, b.term>>, num |-> Arith(op, a.num, b.num)]

OperatorOf(byte) ==
    CASE byte = OP_ADD      -> "TOKEN_PLUS"
      [] byte = OP_SUBTRACT -> "TOKEN_MINUS"
      [] byte = OP_MULTIPLY -> "TOKEN_STAR"
      [] byte = OP_DIVIDE   -> "TOKEN_SLASH"

\* the machine at offset pc (from 0) with value stack stk: the value it
\* returns, or <<>> when it runs off the chunk or pops an empty stack
RECURSIVE Run(_, _, _)
Run(c, pc, stk) ==
    IF pc >= c.count THEN <<>>
    ELSE LET byte == c.code[pc + 1]
             n == Len(stk)
         IN  CASE byte = OP_RETURN ->
                    IF n >= 1 THEN <<stk[n]>> ELSE <<>>
               [] byte = OP_CONSTANT ->
                    IF pc + 1 < c.count /\ c.code[pc + 2] < Len(c.constants)
                       THEN Run(c, pc + 2,
                                Append(stk,
                                  Literal(c.constants[c.code[pc + 2] + 1].number)))
                       ELSE <<>>
               [] byte = OP_NEGATE ->
                    IF n >= 1
                       THEN Run(c, pc + 1,
                                Append(SubSeq(stk, 1, n - 1), Negated(stk[n])))
                       ELSE <<>>
               [] byte \in {OP_ADD, OP_SUBTRACT, OP_MULTIPLY, OP_DIVIDE} ->
                    IF n >= 2
                       THEN Run(c, pc + 1,
                                Append(SubSeq(stk, 1, n - 2),
                                       Combined(OperatorOf(byte),
                                                stk[n - 1], stk[n])))
                       ELSE <<>>
               [] OTHER -> <<>>

\* the value of tree e whose first literal is the k-th of the input, and
\* the number of the literal after its last
RECURSIVE Eval(_, _)
Eval(e, k) ==
    CASE e[1] = "num"   -> [value |-> Literal(LiteralDigit(k)), next |-> k + 1]
      [] e[1] = "group" -> Eval(e[2], k)
      [] e[1] = "neg"   ->
           LET a == Eval(e[2], k)
           IN  [value |-> Negated(a.value), next |-> a.next]
      [] e[1] = "bin"   ->
           LET a == Eval(e[3], k)
               b == Eval(e[4], a.next)
           IN  [value |-> Combined(e[2], a.value, b.value), next |-> b.next]

OneMinusTwoMinusThree ==
    <<"bin", "TOKEN_MINUS",
      <<"bin", "TOKEN_MINUS", <<"num">>, <<"num">>>>, <<"num">>>>

\* C4: the chunk compiled from a well-formed arithmetic expression, run on
\* the stack machine, returns the value the expression has under standard
\* precedence and left associativity, computed by the same operations on
\* the same operands in the same order; 1 - 2 - 3 is emitted as constant,
\* constant, subtract, constant, subtract.
C4_ArithmeticAgrees ==
    (Done /\ family.kind = "expr") =>
        LET ran == Run(chunk, 0, <<>>)
            expected == Eval(family.ast, 1).value
        IN  /\ returned = "true"
            /\ Len(ran) = 1
            /\ ran[1].term = expected.term
            /\ SameNumber(ran[1].num, expected.num)
            /\ family.ast = OneMinusTwoMinusThree =>
                 chunk.code = <<OP_CONSTANT, 0, OP_CONSTANT, 1, OP_SUBTRACT,
                                OP_CONSTANT, 2, OP_SUBTRACT, OP_RETURN>>

\* 1 - 2 - 3 has been compiled and its chunk returns -4
C4_Witness ==
    /\ Done
    /\ family.kind = "expr"
    /\ family.ast = OneMinusTwoMinusThree
    /\ Run(chunk, 0, <<>>)[1].num = <<0 - 4, 1>>

-----------------------------------------------------------------------------
(* Properties of the line index *)

Offsets == 0..(chunk.count - 1)

\* the original C5, for well-formed arithmetic expressions: the line of a
\* binary operator's instruction is the line of the operator token, the
\* line of a constant load that of the literal token
C5_LineOfProducingToken ==
    family.kind = "expr" =>
        \A offset \in Offsets :
            emitted[offset + 1].by \in {"binary", "number", "string"} =>
                /\ getLine(chunk, offset).found
                /\ getLine(chunk, offset).line = emitted[offset + 1].tokLine

\* C5 as amended: getLine of a written offset is the line emitByte passed
\* for that byte, the line of parser.previous when it was emitted: the
\* literal token's for a constant load or a keyword literal, and for an
\* operator's instruction the line of the last token of its operand.
C5_LineOfPreviousToken ==
    /\ Len(emitted) = chunk.count
    /\ \A offset \in Offsets :
         /\ getLine(chunk, offset).found
         /\ getLine(chunk, offset).line = emitted[offset + 1].prevLine
         /\ emitted[offset + 1].by \in {"number", "string", "literal"} =>
              getLine(chunk, offset).line = emitted[offset + 1].tokLine

\* a compiled expression on several lines with gaps, where two bytes in a
\* row share a line and a binary operator stands on an earlier line than
\* the end of its right operand
C5_Witness ==
    /\ Done
    /\ chunk.lineCnt >= 2
    /\ \E i \in 1..chunk.lineCnt : chunk.lines[i].count >= 2
    /\ \E i \in 2..chunk.lineCnt :
         chunk.lines[i].line > chunk.lines[i - 1].line + 1
    /\ \E offset \in Offsets :
         /\ emitted[offset + 1].by = "binary"
         /\ emitted[offset + 1].tokLine < emitted[offset + 1].prevLine

RECURSIVE RunLengths(_, _)
RunLengths(c, i) ==
    IF i > Len(c.lines) THEN 0 ELSE c.lines[i].count + RunLengths(c, i + 1)

\* C6: after initChunk and any writes the run-lengths add up to the number
\* of bytes, every pair counts at least one byte and no two neighbours
\* carry the same line; a write appends a pair for its line when the index
\* is empty or ends with another line, and otherwise adds one to the last
\* pair's run-length.
C6_RunLengthIndex ==
    /\ [](/\ RunLengths(chunk, 1) = chunk.count
          /\ chunk.count = Len(chunk.code)
          /\ chunk.lineCnt = Len(chunk.lines)
          /\ \A i \in 1..chunk.lineCnt : chunk.lines[i].count >= 1
          /\ \A i \in 2..chunk.lineCnt :
               chunk.lines[i].line # chunk.lines[i - 1].line)
    /\ [][chunk'.count = chunk.count + 1 =>
            LET line == emitted'[chunk'.count].prevLine
            IN  IF chunk.lineCnt = 0 \/ chunk.lines[chunk.lineCnt].line # line
                   THEN chunk'.lines =
                          Append(chunk.lines, [line |-> line, count |-> 1])
                   ELSE chunk'.lines =
                          [chunk.lines EXCEPT ![chunk.lineCnt].count = @ + 1]]_vars

\* four bytes written on lines 1, 1, 2, 1
C6_Witness ==
    /\ chunk.count = 4
    /\ chunk.lines = <<[line |-> 1, count |-> 2], [line |-> 2, count |-> 1],
                       [line |-> 1, count |-> 1]>>

\* C9: getLine of an offset below chunk.count returns the line of the
\* pair that covers it, and getLine of any other offset fails loudly.
C9_GetLineTotalOrLoud ==
    lineResult.kind # "none" =>
        IF lineResult.index < chunk.count
           THEN /\ lineResult.kind = "line"
                /\ lineResult.value = emitted[lineResult.index + 1].prevLine
           ELSE lineResult.kind = "failed"

-----------------------------------------------------------------------------
(* Properties of the constant pool *)

\* the offsets of the operand bytes of the constant loads
Operands ==
    {offset \in Offsets :
       /\ emitted[offset + 1].by \in {"number", "string"}
       /\ emitted[offset + 1].nth = 2}

\* C7: an otherwise error-free expression with more than 256 literals gets
\* exactly one diagnostic, "too many constants", at the 257th literal;
\* compile still reads the whole input, adds every literal and ends the
\* chunk with the return opcode; and the operand of every constant load is
\* the pool index of its literal when that is at most 255 and 0 otherwise.
C7_TooManyConstants ==
    Done =>
        /\ \A offset \in Operands :
             LET index == emitted[offset + 1].pool - 1
             IN  /\ chunk.code[offset] = OP_CONSTANT
                 /\ chunk.code[offset + 1] \in 0..UINT8_MAX
                 /\ chunk.code[offset + 1] =
                      IF index <= UINT8_MAX THEN index ELSE 0
        /\ (family.kind \in {"many", "expr"}
            /\ NumbersUpTo(Kinds, Len(Kinds)) > UINT8_MAX + 1) =>
               /\ returned = "false"
               /\ Len(stderr) = 1
               /\ stderr[1].message = "Too many constants is one chunk."
               /\ stderr[1].lexeme
                    = <<Digits[LiteralDigit(UINT8_MAX + 2) + 1]>>
               /\ parser.current.type = "TOKEN_EOF"
               /\ scanned = Len(source)
               /\ Len(chunk.constants) = NumbersUpTo(Kinds, Len(Kinds))
               /\ Cardinality(Operands) = Len(chunk.constants)
               /\ chunk.code[chunk.count] = OP_RETURN

\* 258 literals have been compiled: two of them beyond the operand's range
C7_Witness ==
    /\ Done
    /\ family.kind = "many"
    /\ Len(chunk.constants) = UINT8_MAX + 3
    /\ errorCalls = 2
    /\ Len(stderr) = 1

\* the original C8: the pool never holds more than 256 values
C8_PoolAtMost256 == Len(chunk.constants) <= UINT8_MAX + 1

\* C8 as amended: addConstant appends without a bound, so the pool does
\* grow past 256 values, but never silently: in every state where it holds
\* more than 256 values the compile has failed (hadError and panicMode are
\* set), and a compile that returns true leaves at most 256 values.
C8_PoolBeyond256IsAnError ==
    /\ Len(chunk.constants) > UINT8_MAX + 1 =>
         (parser.hadError /\ parser.panicMode /\ Len(stderr) = 1)
    /\ returned = "true" => Len(chunk.constants) <= UINT8_MAX + 1

\* compile is still running with 257 values in the pool and the error set
C8_Witness ==
    /\ ~Done
    /\ Len(chunk.constants) = UINT8_MAX + 2
    /\ parser.hadError

=============================================================================
